---------------------------- MODULE Spec2Model ----------------------------
(***************************************************************************)
(* Model of src/api/fmp.js: one invocation of fetchMarketData(env), with   *)
(* the provider (the two fetch calls and their response bodies) and the    *)
(* clock as the environment.                                               *)
(*                                                                         *)
(* JavaScript values are tagged records [t |-> <type>, ...], so that       *)
(* values of different JS types can be compared.  A call's outcome is a    *)
(* completion: Return(v) or Throw(e).                                      *)
(***************************************************************************)
EXTENDS Integers, Sequences, FiniteSets, TLC

VARIABLES pc, env, quoteResp, newsResp, quoteCalls, newsCalls,
          quotes, marketNews, result, log

vars == <<pc, env, quoteResp, newsResp, quoteCalls, newsCalls,
          quotes, marketNews, result, log>>

(***************************************************************************)
(* Bounds of the model                                                     *)
(***************************************************************************)
\* longest quote array the provider returns
MaxQuotes == 2
\* longest news array the provider returns
MaxArticles == 6

(***************************************************************************)
(* JavaScript values                                                       *)
(***************************************************************************)
Undefined == [t |-> "undefined"]
Null == [t |-> "null"]
Str(s) == [t |-> "string", str |-> s]
Num(n) == [t |-> "number", num |-> n]
Obj(f) == [t |-> "object", props |-> f]
Arr(s) == [t |-> "array", items |-> s]

Return(v) == [c |-> "return", value |-> v]
Throw(e) == [c |-> "throw", error |-> e]

\* ToBoolean, as used by !apiKey, !quotes, article.text ? :
Truthy(x) ==
  CASE x.t = "undefined" -> FALSE
    [] x.t = "null" -> FALSE
    [] x.t = "string" -> x.str # ""
    [] x.t = "number" -> x.num # 0
    [] OTHER -> TRUE

\* a === b
StrictEq(a, b) ==
  /\ a.t = b.t
  /\ (a.t = "string" => a.str = b.str)
  /\ (a.t = "number" => a.num = b.num)

RECURSIVE Repeat(_, _)
Repeat(s, n) == IF n = 0 THEN "" ELSE s \o Repeat(s, n - 1)

Min(S) == CHOOSE m \in S : \A o \in S : m <= o

\* String.prototype.substring(from, to) for 0 <= from <= to: to is clamped
\* to the length of the string
Substring(s, from, to) ==
  SubSeq(s, from + 1, IF to < Len(s) THEN to ELSE Len(s))

(***************************************************************************)
(* new Date(x).toISOString()                                               *)
(***************************************************************************)
NaN == [t |-> "NaN"]

\* new Date(value): the time value (milliseconds since the epoch) of the
\* date, or NaN.  undefined converts to NaN, null to +0, a number to
\* itself; the only strings of the model are not date strings.
DateTimeValue(x) ==
  CASE x.t = "number" -> Num(x.num)
    [] x.t = "null" -> Num(0)
    [] OTHER -> NaN

Pad(n, width) ==
  LET str == ToString(n)
  IN  Repeat("0", width - Len(str)) \o str

MsPerDay == 24 * 60 * 60 * 1000

\* the proleptic Gregorian date of day number z (days since 1970-01-01)
CivilFromDays(z) ==
  LET zz == z + 719468
      era == zz \div 146097
      doe == zz - era * 146097
      yoe == (doe - doe \div 1460 + doe \div 36524 - doe \div 146096) \div 365
      doy == doe - (365 * yoe + yoe \div 4 - yoe \div 100)
      mp == (5 * doy + 2) \div 153
      d == doy - (153 * mp + 2) \div 5 + 1
      m == IF mp < 10 THEN mp + 3 ELSE mp - 9
      y == yoe + era * 400 + (IF m <= 2 THEN 1 ELSE 0)
  IN  [year |-> y, month |-> m, day |-> d]

\* Date.prototype.toISOString: a RangeError for an invalid date, else
\* YYYY-MM-DDTHH:mm:ss.sssZ
ToISOString(tv) ==
  IF tv.t = "NaN"
  THEN Throw("RangeError")
  ELSE LET ms == tv.num
           date == CivilFromDays(ms \div MsPerDay)
           rest == ms % MsPerDay
       IN  Return(Str(Pad(date.year, 4) \o "-" \o Pad(date.month, 2) \o "-"
                      \o Pad(date.day, 2) \o "T"
                      \o Pad(rest \div 3600000, 2) \o ":"
                      \o Pad((rest \div 60000) % 60, 2) \o ":"
                      \o Pad((rest \div 1000) % 60, 2) \o "."
                      \o Pad(rest % 1000, 3) \o "Z"))

(***************************************************************************)
(* INDICES and getKeyByValue                                               *)
(***************************************************************************)
\* the INDICES object, its properties in insertion order
INDICES ==
  << [key |-> "SP500", value |-> Str("^GSPC")],
     [key |-> "NASDAQ", value |-> Str("^IXIC")],
     [key |-> "DOW", value |-> Str("^DJI")],
     [key |-> "VIX", value |-> Str("^VIX")],
     [key |-> "US10Y", value |-> Str("^TNX")] >>

\* Object.keys(object).find(key => object[key] === value)
getKeyByValue(object, value) ==
  LET hits == {i \in 1..Len(object) : StrictEq(object[i].value, value)}
  IN  IF hits = {} THEN Undefined ELSE Str(object[Min(hits)].key)

\* property read: a TypeError on null and undefined, undefined for a
\* property the object does not have
HasProps(x) == x.t = "object"
Get(x, p) == IF p \in DOMAIN x.props THEN x.props[p] ELSE Undefined

(***************************************************************************)
(* fetchIndexQuotes: the quote normalizer                                  *)
(***************************************************************************)
\* the object literal of lines 87-96; toISOString may throw
QuoteEntry(symbol, quote) ==
  LET iso == ToISOString(DateTimeValue(Get(quote, "timestamp")))
  IN  IF iso.c = "throw"
      THEN iso
      ELSE Return(Obj([symbol |-> symbol,
                       price |-> Get(quote, "price"),
                       change |-> Get(quote, "change"),
                       changePercent |-> Get(quote, "changesPercentage"),
                       dayLow |-> Get(quote, "dayLow"),
                       dayHigh |-> Get(quote, "dayHigh"),
                       volume |-> Get(quote, "volume"),
                       timestamp |-> iso.value]))

\* quotes[key] = entry
SetKey(obj, key, entry) ==
  [k \in DOMAIN obj \cup {key} |-> IF k = key THEN entry ELSE obj[k]]

\* data.forEach(quote => ...), lines 82-98: the records from index i on,
\* with the quotes built so far; a throw of the callback ends the loop
RECURSIVE ForEachQuote(_, _, _)
ForEachQuote(data, i, acc) ==
  IF i > Len(data)
  THEN Return(Obj(acc))
  ELSE LET quote == data[i]
       IN  IF ~HasProps(quote)
           THEN Throw("TypeError")
           ELSE LET symbol == Get(quote, "symbol")
                    key == getKeyByValue(INDICES, symbol)
                IN  IF Truthy(key)
                    THEN LET entry == QuoteEntry(symbol, quote)
                         IN  IF entry.c = "throw"
                             THEN entry
                             ELSE ForEachQuote(data, i + 1,
                                               SetKey(acc, key.str, entry.value))
                    ELSE ForEachQuote(data, i + 1, acc)

\* the Array.isArray / length test of lines 76 and 124
NotUsableArray(data) == data.t # "array" \/ Len(data.items) = 0

\* fetchIndexQuotes without the data.length === 0 test
fetchIndexQuotesBodyNoEmptyCheck(data) ==
  IF data.t # "array"
  THEN Return(Null)
  ELSE ForEachQuote(data.items, 1, <<>>)

\* lines 76-100: from the parsed body to the completion of the try block
fetchIndexQuotesBody(data) ==
  IF NotUsableArray(data)
  THEN Return(Null)
  ELSE ForEachQuote(data.items, 1, <<>>)

\* fetchIndexQuotes without its try/catch
fetchIndexQuotesRethrow(completion) == completion

\* lines 102-105: catch (error) { console.warn(...); return null }
fetchIndexQuotesCatch(completion) ==
  IF completion.c = "throw" THEN Return(Null) ELSE completion

(***************************************************************************)
(* fetchMarketNews: the news normalizer                                    *)
(***************************************************************************)
\* slice(0, 5)
NewsLimit == 5
\* substring(0, 200)
SummaryLimit == 200

\* line 134: article.text ? article.text.substring(0, 200) + '...' : ''
Summary(text) ==
  IF Truthy(text)
  THEN IF text.t = "string"
       THEN Return(Str(Substring(text.str, 0, SummaryLimit) \o "..."))
       ELSE Throw("TypeError")
  ELSE Return(Str(""))

\* the map callback, lines 129-135
NewsItem(article) ==
  IF ~HasProps(article)
  THEN Throw("TypeError")
  ELSE LET summary == Summary(Get(article, "text"))
       IN  IF summary.c = "throw"
           THEN summary
           ELSE Return(Obj([title |-> Get(article, "title"),
                            site |-> Get(article, "site"),
                            publishedAt |-> Get(article, "publishedDate"),
                            url |-> Get(article, "url"),
                            summary |-> summary.value]))

\* Array.prototype.slice(0, end)
Slice(data, end) == SubSeq(data, 1, IF end < Len(data) THEN end ELSE Len(data))

\* Array.prototype.map with the callback above; a throw ends it
RECURSIVE MapArticles(_, _, _)
MapArticles(data, i, acc) ==
  IF i > Len(data)
  THEN Return(Arr(acc))
  ELSE LET item == NewsItem(data[i])
       IN  IF item.c = "throw"
           THEN item
           ELSE MapArticles(data, i + 1, Append(acc, item.value))

\* fetchMarketNews without slice(0, 5)
fetchMarketNewsBodyNoSlice(data) ==
  IF NotUsableArray(data)
  THEN Return(Null)
  ELSE MapArticles(data.items, 1, <<>>)

\* lines 124-135
fetchMarketNewsBody(data) ==
  IF NotUsableArray(data)
  THEN Return(Null)
  ELSE MapArticles(Slice(data.items, NewsLimit), 1, <<>>)

\* fetchMarketNews without its try/catch
fetchMarketNewsRethrow(completion) == completion

\* lines 137-140
fetchMarketNewsCatch(completion) ==
  IF completion.c = "throw" THEN Return(Null) ELSE completion

(***************************************************************************)
(* The environment: env, the provider's answers, the clock                 *)
(***************************************************************************)
SeqsUpTo(S, n) == UNION {[1..k -> S] : k \in 0..n}

Envs ==
  { Undefined,
    Obj(<<>>),
    Obj([FMP_API_KEY |-> Str("")]),
    Obj([FMP_API_KEY |-> Str("demo")]) }

NoResponse == [t |-> "none"]
Reject == [t |-> "reject"]
Response(status, body) == [t |-> "response", status |-> status, body |-> body]
\* a body that is not JSON: response.json() rejects with a SyntaxError
InvalidJson == [t |-> "invalid"]
ErrorBody == Obj([message |-> Str("Invalid API KEY.")])
\* response.ok
Ok(response) == response.status \in 200..299

QuoteFields(symbol, price) ==
  [symbol |-> Str(symbol), price |-> Num(price), change |-> Num(10),
   changesPercentage |-> Num(2), dayLow |-> Num(price - 50),
   dayHigh |-> Num(price + 10), volume |-> Num(1000000)]

QuoteBases ==
  { QuoteFields("^GSPC", 5000), QuoteFields("^TNX", 4),
    QuoteFields("AAPL", 190), [price |-> Num(1)] }

\* raw quote records: with a numeric timestamp, without a timestamp, and
\* null in place of a record
QuoteRecords ==
  {Null} \cup {Obj(SetKey(b, "timestamp", Num(1700000000))) : b \in QuoteBases}
         \cup {Obj(b) : b \in QuoteBases \ {[price |-> Num(1)]}}

QuoteBodies ==
  {InvalidJson, Null, ErrorBody} \cup {Arr(s) : s \in SeqsUpTo(QuoteRecords, MaxQuotes)}

FailureStatuses == {401, 500}

QuoteResponses ==
  {Reject} \cup {Response(st, ErrorBody) : st \in FailureStatuses}
           \cup {Response(200, b) : b \in QuoteBodies}

\* article texts: absent, empty, short, exactly the limit, over the limit
ArticleTexts ==
  << Undefined, Str(""), Str("Fed holds rates"),
     Str(Repeat("0123456789", 20)),
     Str(Repeat("0123456789", 20) \o "X"),
     Str(Repeat("abcdefghij", 25)) >>

PoolSize == Len(ArticleTexts)

Article(i) ==
  LET base == [title |-> Str("headline " \o ToString(i)),
               site |-> Str("example.com"),
               publishedDate |-> Str("2024-01-0" \o ToString(i) \o " 09:30:00"),
               url |-> Str("https://example.com/" \o ToString(i))]
  IN  Obj(IF ArticleTexts[i].t = "undefined"
          THEN base
          ELSE SetKey(base, "text", ArticleTexts[i]))

\* n articles of the pool, from the k-th on
Rotation(n, k) == [i \in 1..n |-> Article(((i + k - 1) % PoolSize) + 1)]

Rotations == {Rotation(n, k) : n \in 1..MaxArticles, k \in 0..(PoolSize - 1)}

\* the same arrays with null as last element
NullLast(s) == [i \in 1..Len(s) |-> IF i = Len(s) THEN Null ELSE s[i]]

NewsBodies ==
  {InvalidJson, Null, ErrorBody, Arr(<<>>)}
    \cup {Arr(s) : s \in Rotations} \cup {Arr(NullLast(s)) : s \in Rotations}

NewsResponses ==
  {Reject} \cup {Response(st, ErrorBody) : st \in FailureStatuses}
           \cup {Response(200, b) : b \in NewsBodies}

\* values of the clock (milliseconds since the epoch) read by new Date()
Clock == {0, 1700000000}

(***************************************************************************)
(* fetchMarketData                                                         *)
(***************************************************************************)
Pending == [c |-> "pending"]

\* apiKey === undefined in place of !apiKey
CredentialUndefined(apiKey) == apiKey.t = "undefined"

\* line 35: !apiKey
CredentialMissing(apiKey) == ~Truthy(apiKey)

\* quotes === undefined in place of !quotes
QuotesUndefined(q) == q.t = "undefined"

\* line 42: !quotes
QuotesMissing(q) == ~Truthy(q)

\* lines 53-56: catch (error) { console.error(...); return null }
fetchMarketDataCatch(completion) ==
  IF completion.c = "throw" THEN Return(Null) ELSE completion

\* the message a catch block logs when it has converted a throw
Logged(before, after, message) ==
  IF before.c = "throw" /\ after.c = "return"
  THEN Append(log, message \o before.error)
  ELSE log

Init ==
  /\ pc = "start"
  /\ env \in Envs
  /\ quoteResp = NoResponse
  /\ newsResp = NoResponse
  /\ quoteCalls = 0
  /\ newsCalls = 0
  /\ quotes = Pending
  /\ marketNews = Pending
  /\ result = Pending
  /\ log = <<>>

\* lines 33-41 and 63-67: the credential check and, with a key, the call of
\* fetchIndexQuotes up to its await of fetch
Start ==
  /\ pc = "start"
  /\ IF ~HasProps(env)
     THEN LET thrown == Throw("TypeError")
              done == fetchMarketDataCatch(thrown)
          IN  /\ result' = done
              /\ log' = Logged(thrown, done, "FMP fetch failed: ")
              /\ pc' = "done"
              /\ UNCHANGED quoteCalls
     ELSE IF CredentialMissing(Get(env, "FMP_API_KEY"))
          THEN /\ result' = Return(Null)
               /\ log' = Append(log, "FMP_API_KEY not configured")
               /\ pc' = "done"
               /\ UNCHANGED quoteCalls
          ELSE /\ quoteCalls' = quoteCalls + 1
               /\ pc' = "quoteFetch"
               /\ UNCHANGED <<result, log>>
  /\ UNCHANGED <<env, quoteResp, newsResp, newsCalls, quotes, marketNews>>

\* lines 65-74: fetch settles; a rejection goes to the catch block, a status
\* outside 2xx returns null, else response.json() is awaited
QuoteResponse ==
  /\ pc = "quoteFetch"
  /\ \E r \in QuoteResponses :
       /\ quoteResp' = r
       /\ IF r.t = "reject"
          THEN LET thrown == Throw("TypeError")
                   done == fetchIndexQuotesCatch(thrown)
               IN  /\ quotes' = done
                   /\ log' = Logged(thrown, done, "FMP index quotes fetch failed: ")
                   /\ pc' = "quotesSettled"
          ELSE IF ~Ok(r)
               THEN /\ quotes' = Return(Null)
                    /\ log' = Append(log, "FMP quote API returned " \o ToString(r.status))
                    /\ pc' = "quotesSettled"
               ELSE /\ pc' = "quoteJson"
                    /\ UNCHANGED <<quotes, log>>
  /\ UNCHANGED <<env, newsResp, quoteCalls, newsCalls, marketNews, result>>

\* lines 74-105: response.json() settles and the body is normalized
QuoteJson ==
  /\ pc = "quoteJson"
  /\ LET body == quoteResp.body
         tried == IF body.t = "invalid"
                  THEN Throw("SyntaxError")
                  ELSE fetchIndexQuotesBody(body)
         done == fetchIndexQuotesCatch(tried)
     IN  /\ quotes' = done
         /\ log' = Logged(tried, done, "FMP index quotes fetch failed: ")
  /\ pc' = "quotesSettled"
  /\ UNCHANGED <<env, quoteResp, newsResp, quoteCalls, newsCalls, marketNews, result>>

\* lines 41-45 and 112-115: fetchMarketData resumes with the quotes; without
\* quotes it returns null, else it calls fetchMarketNews up to its await of
\* fetch
AfterQuotes ==
  /\ pc = "quotesSettled"
  /\ IF quotes.c = "throw"
     THEN LET done == fetchMarketDataCatch(quotes)
          IN  /\ result' = done
              /\ log' = Logged(quotes, done, "FMP fetch failed: ")
              /\ pc' = "done"
              /\ UNCHANGED newsCalls
     ELSE IF QuotesMissing(quotes.value)
          THEN /\ result' = Return(Null)
               /\ pc' = "done"
               /\ UNCHANGED <<newsCalls, log>>
          ELSE /\ newsCalls' = newsCalls + 1
               /\ pc' = "newsFetch"
               /\ UNCHANGED <<result, log>>
  /\ UNCHANGED <<env, quoteResp, newsResp, quoteCalls, quotes, marketNews>>

\* lines 113-122
NewsResponse ==
  /\ pc = "newsFetch"
  /\ \E r \in NewsResponses :
       /\ newsResp' = r
       /\ IF r.t = "reject"
          THEN LET thrown == Throw("TypeError")
                   done == fetchMarketNewsCatch(thrown)
               IN  /\ marketNews' = done
                   /\ log' = Logged(thrown, done, "FMP market news fetch failed: ")
                   /\ pc' = "newsSettled"
          ELSE IF ~Ok(r)
               THEN /\ marketNews' = Return(Null)
                    /\ log' = Append(log, "FMP news API returned " \o ToString(r.status))
                    /\ pc' = "newsSettled"
               ELSE /\ pc' = "newsJson"
                    /\ UNCHANGED <<marketNews, log>>
  /\ UNCHANGED <<env, quoteResp, quoteCalls, newsCalls, quotes, result>>

\* lines 122-140
NewsJson ==
  /\ pc = "newsJson"
  /\ LET body == newsResp.body
         tried == IF body.t = "invalid"
                  THEN Throw("SyntaxError")
                  ELSE fetchMarketNewsBody(body)
         done == fetchMarketNewsCatch(tried)
     IN  /\ marketNews' = done
         /\ log' = Logged(tried, done, "FMP market news fetch failed: ")
  /\ pc' = "newsSettled"
  /\ UNCHANGED <<env, quoteResp, newsResp, quoteCalls, newsCalls, quotes, result>>

\* lines 45-56: fetchMarketData resumes with the news and returns the
\* snapshot, stamped with the clock
Assemble ==
  /\ pc = "newsSettled"
  /\ IF marketNews.c = "throw"
     THEN LET done == fetchMarketDataCatch(marketNews)
          IN  /\ result' = done
              /\ log' = Logged(marketNews, done, "FMP fetch failed: ")
     ELSE \E clock \in Clock :
            LET tried == LET iso == ToISOString(Num(clock))
                         IN  IF iso.c = "throw"
                             THEN iso
                             ELSE Return(Obj([indices |-> quotes.value,
                                              news |-> marketNews.value,
                                              timestamp |-> iso.value]))
                done == fetchMarketDataCatch(tried)
            IN  /\ result' = done
                /\ log' = Logged(tried, done, "FMP fetch failed: ")
  /\ pc' = "done"
  /\ UNCHANGED <<env, quoteResp, newsResp, quoteCalls, newsCalls, quotes, marketNews>>

Next ==
  \/ Start
  \/ QuoteResponse
  \/ QuoteJson
  \/ AfterQuotes
  \/ NewsResponse
  \/ NewsJson
  \/ Assemble

Spec == Init /\ [][Next]_vars

(***************************************************************************)
(* Vocabulary of the properties                                            *)
(***************************************************************************)
Absent == Return(Null)

\* the provider's tickers of the tracked indices
Tickers == {INDICES[i].value : i \in DOMAIN INDICES}

\* the identifier of a ticker
IdentifierOf(ticker) ==
  INDICES[CHOOSE i \in DOMAIN INDICES : INDICES[i].value = ticker].key

\* an API key is present in env
KeyPresent ==
  /\ env.t = "object"
  /\ "FMP_API_KEY" \in DOMAIN env.props
  /\ env.props.FMP_API_KEY.t = "string"
  /\ env.props.FMP_API_KEY.str # ""

\* the ways a phase fails on the provider's side: fetch throws, the status
\* is not 2xx, the body is not JSON, not an array, or an empty array
Failed(resp) ==
  \/ resp.t = "reject"
  \/ /\ resp.t = "response"
     /\ \/ resp.status < 200
        \/ resp.status > 299
        \/ resp.body.t # "array"
        \/ resp.body.items = <<>>

\* the provider answered 2xx with a non-empty JSON array
GotArray(resp) ==
  /\ resp.t = "response"
  /\ ~Failed(resp)

\* the raw record is an object whose symbol is the ticker of an index
Matches(record) ==
  /\ record.t = "object"
  /\ "symbol" \in DOMAIN record.props
  /\ record.props.symbol \in Tickers

\* the identifiers whose ticker appears in the raw records
MatchedIdentifiers(records) ==
  {IdentifierOf(records[i].props.symbol) :
     i \in {j \in DOMAIN records : Matches(records[j])}}

QuotePhaseOver == pc \in {"quotesSettled", "newsFetch", "newsJson", "newsSettled", "done"}
NewsPhaseOver == pc \in {"newsSettled", "done"} /\ newsResp # NoResponse

(***************************************************************************)
(* C1: with an API key, when the quote phase fails (fetch throws, status   *)
(* not 2xx, body not JSON, not an array, or an empty array), the news      *)
(* endpoint is not consulted and the invocation returns null.              *)
(***************************************************************************)
C1_QuoteFailureIsFatal ==
  (KeyPresent /\ Failed(quoteResp)) =>
     /\ newsCalls = 0
     /\ newsResp = NoResponse
     /\ pc = "done" => result = Absent

C1_Witness ==
  /\ pc = "done"
  /\ KeyPresent
  /\ quoteResp = Response(200, Arr(<<>>))
  /\ result = Absent

(***************************************************************************)
(* C2: when the quote phase succeeds and the news phase fails, the result  *)
(* is a snapshot whose indices are the normalized quotes, whose news is    *)
(* null and which has a timestamp.                                         *)
(***************************************************************************)
C2_NewsFailureIsNotFatal ==
  (/\ pc = "done"
   /\ GotArray(quoteResp)
   /\ fetchIndexQuotesBody(quoteResp.body).c = "return"
   /\ Failed(newsResp)) =>
     /\ result.c = "return"
     /\ result.value.t = "object"
     /\ DOMAIN result.value.props = {"indices", "news", "timestamp"}
     /\ result.value.props.indices = fetchIndexQuotesBody(quoteResp.body).value
     /\ result.value.props.news = Null
     /\ result.value.props.timestamp.t = "string"
     /\ Len(result.value.props.timestamp.str) = 24

C2_Witness ==
  /\ pc = "done"
  /\ GotArray(quoteResp)
  /\ newsResp = Reject
  /\ result.c = "return"
  /\ result.value.t = "object"
  /\ DOMAIN result.value.props.indices.props = {"SP500", "US10Y"}
  /\ result.value.props.news = Null

(***************************************************************************)
(* C3: without an API key (env.FMP_API_KEY missing or falsy) the           *)
(* invocation requests neither endpoint and returns null.                  *)
(***************************************************************************)
C3_NoKeyNoNetwork ==
  ~KeyPresent =>
     /\ quoteCalls = 0
     /\ newsCalls = 0
     /\ quoteResp = NoResponse
     /\ newsResp = NoResponse
     /\ pc \in {"start", "done"}
     /\ pc = "done" => result = Absent

C3_Witness ==
  /\ pc = "done"
  /\ env = Obj([FMP_API_KEY |-> Str("")])
  /\ result = Absent
  /\ quoteCalls = 0

(***************************************************************************)
(* C4: raw quotes that are empty, not an array, or without any record of a *)
(* known ticker normalize to null, and the snapshot is then null.          *)
(***************************************************************************)
C4_NoMatchIsAbsent ==
  (/\ QuotePhaseOver
   /\ quoteResp.t = "response"
   /\ quoteResp.status = 200
   /\ quoteResp.body.t # "invalid"
   /\ \/ quoteResp.body.t # "array"
      \/ MatchedIdentifiers(quoteResp.body.items) = {}) =>
     /\ quotes = Absent
     /\ pc = "done" => result = Absent

(***************************************************************************)
(* C5: a matched quote record whose timestamp cannot be converted is the   *)
(* only record left out: when other matched records have a convertible     *)
(* timestamp, normalization yields a mapping that holds exactly those.     *)
(***************************************************************************)
Convertible(record) ==
  /\ "timestamp" \in DOMAIN record.props
  /\ record.props.timestamp.t = "number"

C5_BadTimestampSkipsOneRecord ==
  (/\ QuotePhaseOver
   /\ GotArray(quoteResp)
   /\ \A i \in DOMAIN quoteResp.body.items : quoteResp.body.items[i].t = "object") =>
     LET records == quoteResp.body.items
         kept == {i \in DOMAIN records : Matches(records[i]) /\ Convertible(records[i])}
     IN  kept # {} =>
           /\ quotes.c = "return"
           /\ quotes.value.t = "object"
           /\ DOMAIN quotes.value.props =
                {IdentifierOf(records[i].props.symbol) : i \in kept}

(***************************************************************************)
(* C6: the summary of a normalized article is the first 200 characters of  *)
(* the text followed by the marker when the text is longer than 200        *)
(* characters, the text itself when it has at most 200 characters, and the *)
(* empty string when the text is absent.                                   *)
(***************************************************************************)
C6_MarkerOnlyWhenTruncated ==
  (NewsPhaseOver /\ marketNews.c = "return" /\ marketNews.value.t = "array") =>
     \A i \in DOMAIN marketNews.value.items :
        LET raw == newsResp.body.items[i].props
            summary == marketNews.value.items[i].props.summary
        IN  IF "text" \in DOMAIN raw
            THEN IF Len(raw.text.str) > 200
                 THEN summary = Str(SubSeq(raw.text.str, 1, 200) \o "...")
                 ELSE summary = raw.text
            ELSE summary = Str("")

(***************************************************************************)
(* C7: a successful news response of n articles normalizes to min(n, 5)    *)
(* items, the i-th built from the i-th raw article.                        *)
(***************************************************************************)
C7_FirstFiveInOrder ==
  (NewsPhaseOver /\ marketNews.c = "return" /\ marketNews.value.t = "array") =>
     LET raw == newsResp.body.items
         items == marketNews.value.items
     IN  /\ Len(items) = (IF Len(raw) < 5 THEN Len(raw) ELSE 5)
         /\ \A i \in DOMAIN items :
              /\ items[i].props.title = raw[i].props.title
              /\ items[i].props.site = raw[i].props.site
              /\ items[i].props.publishedAt = raw[i].props.publishedDate
              /\ items[i].props.url = raw[i].props.url
         /\ pc = "done" => result.value.props.news = marketNews.value

C7_Witness ==
  /\ pc = "done"
  /\ newsResp.t = "response"
  /\ newsResp.body.t = "array"
  /\ Len(newsResp.body.items) > 5
  /\ result.c = "return"
  /\ result.value.t = "object"
  /\ result.value.props.news.t = "array"
  /\ Len(result.value.props.news.items) = 5

(***************************************************************************)
(* C8: raw quotes with at least one record of a known ticker normalize to  *)
(* a mapping whose keys are exactly the identifiers whose ticker appears   *)
(* in the input, each entry holding the ticker of its identifier.          *)
(***************************************************************************)
C8_KeysAreMatchedIdentifiers ==
  (/\ QuotePhaseOver
   /\ GotArray(quoteResp)
   /\ MatchedIdentifiers(quoteResp.body.items) # {}) =>
     /\ quotes.c = "return"
     /\ quotes.value.t = "object"
     /\ DOMAIN quotes.value.props = MatchedIdentifiers(quoteResp.body.items)
     /\ \A i \in DOMAIN INDICES :
          INDICES[i].key \in DOMAIN quotes.value.props =>
             quotes.value.props[INDICES[i].key].props.symbol = INDICES[i].value

(***************************************************************************)
(* C9: no fault escapes: a rejected fetch, a status outside 2xx, a body    *)
(* that is not JSON or a null record makes the phase it occurs in return   *)
(* null, no phase and no invocation completes by throwing, and a finished  *)
(* invocation has returned a value.                                        *)
(***************************************************************************)
\* a null record among the first n
NullAmong(items, n) ==
  \E i \in DOMAIN items : i <= n /\ items[i] = Null

\* the provider's answer makes the phase throw or return early, n being the
\* number of records the phase reads
Faulty(resp, n) ==
  \/ resp.t = "reject"
  \/ /\ resp.t = "response"
     /\ \/ resp.status < 200
        \/ resp.status > 299
        \/ resp.body.t = "invalid"
        \/ resp.body.t = "array" /\ NullAmong(resp.body.items, n)

ItemCount(resp) ==
  IF resp.t = "response" /\ resp.body.t = "array" THEN Len(resp.body.items) ELSE 0

C9_NoFaultEscapes ==
  /\ quotes.c \in {"pending", "return"}
  /\ marketNews.c \in {"pending", "return"}
  /\ result.c \in {"pending", "return"}
  /\ pc = "done" <=> result.c = "return"
  /\ (QuotePhaseOver /\ Faulty(quoteResp, ItemCount(quoteResp))) => quotes = Absent
  /\ (NewsPhaseOver /\ Faulty(newsResp, 5)) => marketNews = Absent

C9_Witness ==
  /\ pc = "done"
  /\ newsResp = Response(200, Arr(<<Article(3), Null>>))
  /\ result.c = "return"
  /\ result.value.t = "object"
  /\ result.value.props.news = Null

(***************************************************************************)
(* C10: each endpoint is requested at most once, and the news endpoint     *)
(* only after the quote phase has returned quotes.                         *)
(***************************************************************************)
C10_SequentialNoRetry ==
  /\ quoteCalls <= 1
  /\ newsCalls <= 1
  /\ newsCalls = 1 =>
       /\ quoteCalls = 1
       /\ quoteResp # NoResponse
       /\ quotes.c = "return"
       /\ quotes.value.t = "object"
  /\ newsResp # NoResponse => newsCalls = 1
  /\ quoteResp # NoResponse => quoteCalls = 1

C10_Witness ==
  /\ pc = "done"
  /\ quoteCalls = 1
  /\ newsCalls = 1
  /\ Failed(newsResp)
=============================================================================
